---- MODULE Spec2Model ----
(***************************************************************************)
(* Library-API: a Flask/SQLAlchemy catalogue service.  The model covers    *)
(* the persistent tables (users, books, reviews, user_library), the HTTP   *)
(* resources that change them, the model methods the test-suite calls      *)
(* directly, and the statement-by-statement execution of the add-review    *)
(* handler for concurrent callers.                                         *)
(*                                                                         *)
(* A float produced by Python's `sum(ratings) / len(ratings)` is the       *)
(* reduced fraction <<numerator, denominator>>: IEEE division is correctly *)
(* rounded, so two quotients of small integers are the same float exactly  *)
(* when they are the same rational.  0.0 is <<0, 1>>.                      *)
(* A nullable column holds <<>> for NULL/None and <<v>> for the value v.   *)
(* The reviews and user_library tables are bags of rows: their integer     *)
(* primary key is a surrogate no handler reads, and no storage constraint  *)
(* keeps two rows from agreeing on every other column.                     *)
(***************************************************************************)
EXTENDS Integers, Sequences, FiniteSets, Bags, TLC

\* ---------------------------------------------------------------- bounds
MaxBooks == 2
MaxReviews == 3
MaxLibrary == 2
MaxUsers == 3

\* ---------------------------------------------------------------- inputs
UserIds == {1, 2}
\* A token identity: a stored user, or an id no stored user has.
Identities == UserIds \cup {3}
\* A path parameter <int:book_id>: a possible book id, or one past them.
BookIdInputs == 1 .. (MaxBooks + 1)
\* The book_id argument of a library request: an id a book can have.
LibraryBookIds == 1 .. MaxBooks
Titles == {"Dune", "Emma"}
Authors == {"Herbert"}
Genres == {"SciFi"}
RatingInputs == 0 .. 6
\* An email address is the sequence of its characters.
AdminEmail == <<"r", "@", "g", ".", "c">>
AliceEmail == <<"a", "@", "x", ".", "c">>
BobEmail == <<"b", "@", "x", ".", "c">>
CarolEmail == <<"c", "@", "x", ".", "c">>
\* The email argument of a request: stored, new, new without a dot after
\* the @, and empty.
EmailInputs == {AdminEmail, AliceEmail, BobEmail, CarolEmail,
                <<"b", "@", "x">>, <<>>}
NameInputs == {"Bob", ""}
\* A token identity of a user request: an id a user can have, or one past them.
ActorIds == 1 .. (MaxUsers + 1)
ValidStatuses == {"completed", "wishlist", "reading"}
Procs == {1, 2}

VARIABLES role, email, books, reviews, library, resp, pc, req

vars == <<role, email, books, reviews, library, resp, pc, req>>
procVars == <<pc, req>>

\* ------------------------------------------------------------- helpers
None == <<>>
Some(v) == <<v>>

RECURSIVE GCD(_, _)
GCD(a, b) == IF b = 0 THEN a ELSE GCD(b, a % b)

\* Python's float n / d for integers n >= 0, d > 0.
Float(n, d) == LET g == GCD(n, d) IN <<n \div g, d \div g>>
Zero == <<0, 1>>

Max(S) == CHOOSE x \in S : \A y \in S : y <= x

\* Integer primary key of a new book (SQLite rowid: one past the largest).
NewId(table) == IF DOMAIN table = {} THEN 1 ELSE Max(DOMAIN table) + 1

\* db.session.add(row); db.session.commit()
AddRow(table, row) == table (+) SetToBag({row})

\* The rows of a table whose column `col` is not v.
Without(table, col, v) ==
  [x \in {y \in DOMAIN table : y[col] # v} |-> table[x]]

\* Model.query.filter_by(book_id=b).all()
OfBook(table, b) ==
  [x \in {y \in DOMAIN table : y.book_id = b} |-> table[x]]

\* Model.query.filter_by(user_id=u, book_id=b)
OfUserBook(table, u, b) ==
  [x \in {y \in DOMAIN table : y.user_id = u /\ y.book_id = b} |-> table[x]]

RECURSIVE SumOver(_, _)
SumOver(f, S) == IF S = {} THEN 0
                 ELSE LET x == CHOOSE y \in S : TRUE
                      IN f[x] + SumOver(f, S \ {x})

\* A recompute that divides by the number of reviews, unrated ones included.
AverageOverAllRows(found) ==
  LET rated == {x \in DOMAIN found : x.rating # None}
      total == [x \in rated |-> x.rating[1] * found[x]]
  IN IF rated = {} THEN Zero
     ELSE Float(SumOver(total, rated), BagCardinality(found))

\* ratings = [review.rating for review in reviews if review.rating is not None]
\* sum(ratings) / len(ratings) if ratings else 0.0
Average(found) ==
  LET rated == {x \in DOMAIN found : x.rating # None}
      total == [x \in rated |-> x.rating[1] * found[x]]
      count == [x \in rated |-> found[x]]
  IN IF rated = {} THEN Zero
     ELSE Float(SumOver(total, rated), SumOver(count, rated))

\* A recompute whose query has no filter: the reviews of every book count.
update_average_rating_unfiltered(bks, rvs, b) ==
  IF OfBook(rvs, b) = EmptyBag
  THEN [books |-> bks, raised |-> "ValueError"]
  ELSE [books |-> [bks EXCEPT ![b].average_rating = Average(rvs)],
        raised |-> ""]

\* A recompute that folds the mean into the stored value: the new average
\* is halfway between the stored one and the mean of the reviews.
update_average_rating_running(bks, rvs, b) ==
  LET found == OfBook(rvs, b)
      old == bks[b].average_rating
      new == Average(found)
  IN IF found = EmptyBag
     THEN [books |-> bks, raised |-> "ValueError"]
     ELSE [books |-> [bks EXCEPT ![b].average_rating =
                        Float(old[1] * new[2] + new[1] * old[2],
                              2 * old[2] * new[2])],
           raised |-> ""]

\* BookModel.update_average_rating, called on book b with no other request
\* in between: the books table afterwards and the exception raised, if any.
update_average_rating(bks, rvs, b) ==
  LET found == OfBook(rvs, b)
  IN IF found = EmptyBag
     THEN [books |-> bks, raised |-> "ValueError"]
     ELSE [books |-> [bks EXCEPT ![b].average_rating = Average(found)],
           raised |-> ""]

\* What the caller gets: the handler, the status code and the message of the
\* body, or for an exception that leaves the call its class.
Response(op, status, message) ==
  [op |-> op, status |-> status, message |-> message]

\* ----------------------------------------------------------------- Init
\* The seeded database has an admin and an ordinary user, and no books.
Init ==
  /\ role = [u \in UserIds |-> IF u = 1 THEN "admin" ELSE "user"]
  /\ email = [u \in UserIds |-> IF u = 1 THEN AdminEmail ELSE AliceEmail]
  /\ books = << >>
  /\ reviews = EmptyBag
  /\ library = EmptyBag
  /\ resp = Response("none", 0, "")
  /\ pc = [p \in Procs |-> "idle"]
  /\ req = [p \in Procs |-> [user |-> 0, book |-> 0, rating |-> 0,
                             seen |-> EmptyBag, loaded |-> Zero,
                             entry_status |-> "",
                             status |-> 0, message |-> ""]]

\* ------------------------------------------------------- Books resource
\* validate_required_fields(title=..., author=..., genre=...)
validate_required_fields(title, author, genre) ==
  title # "" /\ author # "" /\ genre # ""

\* A create that only an admin may make.
BooksPostAdminOnly(u, title, author, genre, description) ==
  /\ UNCHANGED <<role, email, reviews, library, procVars>>
  /\ IF u \notin DOMAIN role \/ role[u] # "admin"
     THEN /\ resp' = Response("create_book", 403, "Unauthorized")
          /\ UNCHANGED books
     ELSE IF \E b \in DOMAIN books : /\ books[b].title = title
                                     /\ books[b].author = author
     THEN /\ resp' = Response("create_book", 400, "Book already exists")
          /\ UNCHANGED books
     ELSE IF ~validate_required_fields(title, author, genre)
     THEN /\ resp' = Response("create_book", 500, "ValueError")
          /\ UNCHANGED books
     ELSE /\ NewId(books) <= MaxBooks
          /\ books' = [b \in DOMAIN books \cup {NewId(books)} |->
                         IF b \in DOMAIN books THEN books[b]
                         ELSE [title |-> title, author |-> author,
                               genre |-> genre, description |-> description,
                               average_rating |-> Zero]]
          /\ resp' = Response("create_book", 201, "Book added successfully")

\* Books.post
BooksPost(u, title, author, genre, description) ==
  /\ UNCHANGED <<role, email, reviews, library, procVars>>
  /\ IF u \notin DOMAIN role
     THEN /\ resp' = Response("create_book", 403, "Unauthorized")
          /\ UNCHANGED books
     ELSE IF \E b \in DOMAIN books : /\ books[b].title = title
                                     /\ books[b].author = author
     THEN /\ resp' = Response("create_book", 400, "Book already exists")
          /\ UNCHANGED books
     ELSE IF ~validate_required_fields(title, author, genre)
     THEN /\ resp' = Response("create_book", 500, "ValueError")
          /\ UNCHANGED books
     ELSE /\ NewId(books) <= MaxBooks
          /\ books' = [b \in DOMAIN books \cup {NewId(books)} |->
                         IF b \in DOMAIN books THEN books[b]
                         ELSE [title |-> title, author |-> author,
                               genre |-> genre, description |-> description,
                               average_rating |-> Zero]]
          /\ resp' = Response("create_book", 201, "Book added successfully")

\* Books.get with a book id: the status of the response.
BooksGetStatus(bks, b) == IF b \in DOMAIN bks THEN 200 ELSE 404

BooksGet(u, b) ==
  /\ resp' = Response("get_book", BooksGetStatus(books, b),
                      IF b \in DOMAIN books THEN "" ELSE "Book not found")
  /\ UNCHANGED <<role, email, books, reviews, library, procVars>>

\* An update that looks for the book before it looks at the caller's role.
BooksPatchExistenceFirst(u, b, title, author, genre, description) ==
  /\ UNCHANGED <<role, email, reviews, library, procVars>>
  /\ IF b \notin DOMAIN books
     THEN /\ resp' = Response("update_book", 404, "No matching book found")
          /\ UNCHANGED books
     ELSE IF u \notin DOMAIN role \/ role[u] # "admin"
     THEN /\ resp' = Response("update_book", 403, "Unauthorized access")
          /\ UNCHANGED books
     ELSE /\ books' = [books EXCEPT
                 ![b].title = IF title # "" THEN title ELSE @,
                 ![b].author = IF author # "" THEN author ELSE @,
                 ![b].genre = IF genre # "" THEN genre ELSE @,
                 ![b].description = IF description # "" THEN Some(description) ELSE @]
          /\ resp' = Response("update_book", 200, "Book updated successfully")

\* An update that assigns every field of the request, empty ones included.
BooksPatchOverwritingAll(u, b, title, author, genre, description) ==
  /\ UNCHANGED <<role, email, reviews, library, procVars>>
  /\ IF u \notin DOMAIN role \/ role[u] # "admin"
     THEN /\ resp' = Response("update_book", 403, "Unauthorized access")
          /\ UNCHANGED books
     ELSE IF b \notin DOMAIN books
     THEN /\ resp' = Response("update_book", 404, "No matching book found")
          /\ UNCHANGED books
     ELSE /\ books' = [books EXCEPT
                 ![b].title = title,
                 ![b].author = author,
                 ![b].genre = genre,
                 ![b].description = Some(description)]
          /\ resp' = Response("update_book", 200, "Book updated successfully")

\* Books.patch; a field that is absent or empty is "".
BooksPatch(u, b, title, author, genre, description) ==
  /\ UNCHANGED <<role, email, reviews, library, procVars>>
  /\ IF u \notin DOMAIN role \/ role[u] # "admin"
     THEN /\ resp' = Response("update_book", 403, "Unauthorized access")
          /\ UNCHANGED books
     ELSE IF b \notin DOMAIN books
     THEN /\ resp' = Response("update_book", 404, "No matching book found")
          /\ UNCHANGED books
     ELSE /\ books' = [books EXCEPT
                 ![b].title = IF title # "" THEN title ELSE @,
                 ![b].author = IF author # "" THEN author ELSE @,
                 ![b].genre = IF genre # "" THEN genre ELSE @,
                 ![b].description = IF description # "" THEN Some(description) ELSE @]
          /\ resp' = Response("update_book", 200, "Book updated successfully")

\* A delete whose reviews relationship has no cascade: the reviews stay.
BooksDeleteKeepingReviews(u, b) ==
  /\ UNCHANGED <<role, email, procVars>>
  /\ IF u \notin DOMAIN role \/ role[u] # "admin"
     THEN /\ resp' = Response("delete_book", 403, "Unauthorized")
          /\ UNCHANGED <<books, reviews, library>>
     ELSE IF b \notin DOMAIN books
     THEN /\ resp' = Response("delete_book", 404, "Book not found")
          /\ UNCHANGED <<books, reviews, library>>
     ELSE /\ library' = Without(library, "book_id", b)
          /\ UNCHANGED reviews
          /\ books' = [x \in DOMAIN books \ {b} |-> books[x]]
          /\ resp' = Response("delete_book", 200, "Book deleted successfully")

\* Books.delete: the library entries of the book are deleted explicitly,
\* its reviews by the cascade of BookModel.reviews.
BooksDelete(u, b) ==
  /\ UNCHANGED <<role, email, procVars>>
  /\ IF u \notin DOMAIN role \/ role[u] # "admin"
     THEN /\ resp' = Response("delete_book", 403, "Unauthorized")
          /\ UNCHANGED <<books, reviews, library>>
     ELSE IF b \notin DOMAIN books
     THEN /\ resp' = Response("delete_book", 404, "Book not found")
          /\ UNCHANGED <<books, reviews, library>>
     ELSE /\ library' = Without(library, "book_id", b)
          /\ reviews' = Without(reviews, "book_id", b)
          /\ books' = [x \in DOMAIN books \ {b} |-> books[x]]
          /\ resp' = Response("delete_book", 200, "Book deleted successfully")

\* -------------------------------------------------- BookReview resource
\* ReviewModel(user_id, book_id, rating, review_text)
ReviewModel(u, b, rating, text) ==
  [user_id |-> u, book_id |-> b, rating |-> rating, review_text |-> text]

\* A range check with the boundaries on the wrong side.
RatingOutOfRangeStrict(r) == r <= 1 \/ r >= 5

\* data['rating'] < 1 or data['rating'] > 5
RatingOutOfRange(r) == r < 1 \/ r > 5

\* The checks without the lookup of an existing review.
BookReviewChecksWithoutExisting(u, b, r) ==
  IF u \notin DOMAIN role
  THEN Response("add_review", 403, "Unauthorized")
  ELSE IF b \notin DOMAIN books
  THEN Response("add_review", 404, "Book not found")
  ELSE IF RatingOutOfRange(r)
  THEN Response("add_review", 400, "Rating must be between 1 and 5")
  ELSE Response("add_review", 0, "")

\* BookReview.post up to the insert: the early return, or status 0 when the
\* handler goes on to store the review.
BookReviewChecks(u, b, r) ==
  IF u \notin DOMAIN role
  THEN Response("add_review", 403, "Unauthorized")
  ELSE IF b \notin DOMAIN books
  THEN Response("add_review", 404, "Book not found")
  ELSE IF RatingOutOfRange(r)
  THEN Response("add_review", 400, "Rating must be between 1 and 5")
  ELSE IF OfUserBook(reviews, u, b) # EmptyBag
  THEN Response("add_review", 400, "You have already reviewed this book")
  ELSE Response("add_review", 0, "")

\* BookReview.post with no other request in between.
BookReviewPost(u, b, r, t) ==
  /\ UNCHANGED <<role, email, library, procVars>>
  /\ IF BookReviewChecks(u, b, r).status # 0
     THEN /\ resp' = BookReviewChecks(u, b, r)
          /\ UNCHANGED <<books, reviews>>
     ELSE /\ BagCardinality(reviews) < MaxReviews
          /\ LET rows == AddRow(reviews, ReviewModel(u, b, Some(r), t))
                 out == update_average_rating(books, rows, b)
             IN /\ reviews' = rows
                /\ books' = out.books
                /\ resp' = IF out.raised = ""
                           THEN Response("add_review", 201,
                                         "Review added successfully")
                           ELSE Response("add_review", 500, out.raised)

\* ------------------------------------------------- UserLibrary resource
\* UserLibraryModel(user_id, book_id, status)
UserLibraryModel(u, b, status) ==
  [user_id |-> u, book_id |-> b, status |-> status]

\* An add without the lookup of an existing entry.
UserLibraryPostWithoutExisting(u, b, status) ==
  /\ UNCHANGED <<role, email, books, reviews, procVars>>
  /\ IF status \notin ValidStatuses
     THEN /\ resp' = Response("library_add", 400, "Invalid status")
          /\ UNCHANGED library
     ELSE /\ BagCardinality(library) < MaxLibrary
          /\ library' = AddRow(library, UserLibraryModel(u, b, status))
          /\ resp' = Response("library_add", 201,
                              "Book added to library with status " \o status)

\* UserLibrary.post
UserLibraryPost(u, b, status) ==
  /\ UNCHANGED <<role, email, books, reviews, procVars>>
  /\ IF status \notin ValidStatuses
     THEN /\ resp' = Response("library_add", 400, "Invalid status")
          /\ UNCHANGED library
     ELSE IF OfUserBook(library, u, b) # EmptyBag
     THEN /\ resp' = Response("library_add", 400, "Book already in your library")
          /\ UNCHANGED library
     ELSE /\ BagCardinality(library) < MaxLibrary
          /\ library' = AddRow(library, UserLibraryModel(u, b, status))
          /\ resp' = Response("library_add", 201,
                              "Book added to library with status " \o status)

\* An update whose lookup filters by the book only.
UserLibraryPatchOfAnyUser(u, b, status) ==
  /\ UNCHANGED <<role, email, books, reviews, procVars>>
  /\ IF status \notin ValidStatuses
     THEN /\ resp' = Response("library_update", 400, "Invalid status")
          /\ UNCHANGED library
     ELSE IF OfBook(library, b) = EmptyBag
     THEN /\ resp' = Response("library_update", 404, "Book not found in your library")
          /\ UNCHANGED library
     ELSE /\ \E e \in DOMAIN OfBook(library, b) :
               library' = (library (-) SetToBag({e}))
                            (+) SetToBag({[e EXCEPT !.status = status]})
          /\ resp' = Response("library_update", 200,
                              "Book status updated to " \o status)

\* UserLibrary.patch; .first() is any one of the matching rows.
UserLibraryPatch(u, b, status) ==
  /\ UNCHANGED <<role, email, books, reviews, procVars>>
  /\ IF status \notin ValidStatuses
     THEN /\ resp' = Response("library_update", 400, "Invalid status")
          /\ UNCHANGED library
     ELSE IF OfUserBook(library, u, b) = EmptyBag
     THEN /\ resp' = Response("library_update", 404, "Book not found in your library")
          /\ UNCHANGED library
     ELSE /\ \E e \in DOMAIN OfUserBook(library, u, b) :
               library' = (library (-) SetToBag({e}))
                            (+) SetToBag({[e EXCEPT !.status = status]})
          /\ resp' = Response("library_update", 200,
                              "Book status updated to " \o status)

\* A remove whose lookup filters by the book only and deletes every match.
UserLibraryDeleteOfAnyUser(u, b) ==
  /\ UNCHANGED <<role, email, books, reviews, procVars>>
  /\ IF OfUserBook(library, u, b) = EmptyBag
     THEN /\ resp' = Response("library_remove", 404, "Book not found in your library")
          /\ UNCHANGED library
     ELSE /\ library' = Without(library, "book_id", b)
          /\ resp' = Response("library_remove", 200,
                              "Book successfully removed from your library")

\* UserLibrary.delete; .first() is any one of the matching rows.
UserLibraryDelete(u, b) ==
  /\ UNCHANGED <<role, email, books, reviews, procVars>>
  /\ IF OfUserBook(library, u, b) = EmptyBag
     THEN /\ resp' = Response("library_remove", 404, "Book not found in your library")
          /\ UNCHANGED library
     ELSE /\ \E e \in DOMAIN OfUserBook(library, u, b) :
               library' = library (-) SetToBag({e})
          /\ resp' = Response("library_remove", 200,
                              "Book successfully removed from your library")

\* ------------------------------------------ the service, one request at a time
\* Every handler of the API, each request running to completion before the
\* next one starts.
Next ==
  \/ \E u \in Identities, t \in Titles \cup {""}, a \in Authors, g \in Genres :
        BooksPost(u, t, a, g, Some("classic"))
  \/ \E b \in BookIdInputs : BooksGet(1, b)
  \/ \E u \in UserIds, b \in BookIdInputs, d \in {"", "revised"} :
        BooksPatch(u, b, "", "", "", d)
  \/ \E u \in UserIds, b \in BookIdInputs : BooksDelete(u, b)
  \/ \E u \in Identities, b \in BookIdInputs, r \in {0, 1, 5, 6} :
        BookReviewPost(u, b, r, Some("Great book!"))
  \/ \E b \in {1, 2}, s \in {"reading", "finished"} :
        UserLibraryPost(2, b, s)
  \/ \E b \in {1, 2}, s \in {"completed", "finished"} :
        UserLibraryPatch(2, b, s)
  \/ \E b \in {1, 2} : UserLibraryDelete(2, b)

Spec == Init /\ [][Next]_vars

\* --------------------------------- the models, called as the tests call them
\* db.session.add(ReviewModel(...)); db.session.commit() for a stored book:
\* the column takes any rating, NULL included.
ReviewInsert(u, b, rating, text) ==
  /\ b \in DOMAIN books
  /\ BagCardinality(reviews) < MaxReviews
  /\ reviews' = AddRow(reviews, ReviewModel(u, b, rating, text))
  /\ resp' = Response("insert_review", 0, "")
  /\ UNCHANGED <<role, email, books, library, procVars>>

\* book.update_average_rating() on the stored book b.
UpdateAverageRating(b) ==
  /\ b \in DOMAIN books
  /\ LET out == update_average_rating(books, reviews, b)
     IN /\ books' = out.books
        /\ resp' = Response("update_average_rating", 0, out.raised)
  /\ UNCHANGED <<role, email, reviews, library, procVars>>

ModelNext ==
  \/ \E t \in Titles : BooksPost(1, t, "Herbert", "SciFi", None)
  \/ \E b \in BookIdInputs, r \in {None, Some(4), Some(5), Some(6)} :
        ReviewInsert(2, b, r, Some("Great book!"))
  \/ \E b \in BookIdInputs : UpdateAverageRating(b)

ModelSpec == Init /\ [][ModelNext]_vars

\* ------------------------------------------- the catalogue and its reviews
ReviewNext ==
  \/ \E t \in Titles : BooksPost(2, t, "Herbert", "SciFi", None)
  \/ \E b \in BookIdInputs : BooksDelete(1, b)
  \/ \E u \in UserIds, b \in BookIdInputs, r \in RatingInputs :
        BookReviewPost(u, b, r, None)

ReviewSpec == Init /\ [][ReviewNext]_vars

\* ------------------------------ the catalogue, its reviews and libraries
\* The requests that store and remove books and the rows that refer to them.
DeleteNext ==
  \/ \E t \in Titles : BooksPost(1, t, "Herbert", "SciFi", None)
  \/ \E u \in UserIds, b \in BookIdInputs : BooksDelete(u, b)
  \/ \E u \in UserIds, b \in BookIdInputs, r \in {1, 5} :
        BookReviewPost(u, b, r, None)
  \/ \E b \in BookIdInputs : UserLibraryPost(2, b, "reading")

DeleteSpec == Init /\ [][DeleteNext]_vars

\* ----------------------------- BookReview.post, one statement at a time
\* Each caller runs one request; between two of its database statements
\* any other caller may run any of its own.
Finish(p, status, message) ==
  /\ pc' = [pc EXCEPT ![p] = "done"]
  /\ req' = [req EXCEPT ![p].status = status, ![p].message = message]

\* Lines 67-88: the lookups and the checks.
PostBegin(p, u, b, r) ==
  /\ pc[p] = "idle"
  /\ UNCHANGED <<role, email, books, reviews, library, resp>>
  /\ LET early == BookReviewChecks(u, b, r)
     IN /\ pc' = [pc EXCEPT ![p] = IF early.status # 0 THEN "done" ELSE "insert"]
        /\ req' = [req EXCEPT ![p].user = u, ![p].book = b, ![p].rating = r,
                              ![p].status = early.status,
                              ![p].message = early.message]

\* Lines 91-98: db.session.add(review); db.session.commit()
PostInsert(p) ==
  /\ pc[p] = "insert"
  /\ BagCardinality(reviews) < MaxReviews
  /\ reviews' = AddRow(reviews, ReviewModel(req[p].user, req[p].book,
                                            Some(req[p].rating), None))
  /\ pc' = [pc EXCEPT ![p] = "read"]
  /\ UNCHANGED <<role, email, books, library, resp, req>>

\* update_average_rating up to the assignment: self.id reloads the book,
\* which the commit expired, and the query reads the book's reviews.  A
\* book that is gone fails the reload (ObjectDeletedError), which leaves
\* the method as RuntimeError.
PostRead(p) ==
  /\ pc[p] = "read"
  /\ UNCHANGED <<role, email, books, reviews, library, resp>>
  /\ IF req[p].book \notin DOMAIN books
     THEN Finish(p, 500, "RuntimeError")
     ELSE IF OfBook(reviews, req[p].book) = EmptyBag
     THEN Finish(p, 500, "ValueError")
     ELSE /\ pc' = [pc EXCEPT ![p] = "write"]
          /\ req' = [req EXCEPT
                       ![p].seen = OfBook(reviews, req[p].book),
                       ![p].loaded = books[req[p].book].average_rating]

\* self.average_rating = ...; db.session.commit(): the session writes the
\* column when the value differs from the one it loaded, and the UPDATE of
\* a row that is gone raises (StaleDataError), which leaves the method as
\* RuntimeError.
PostWrite(p) ==
  /\ pc[p] = "write"
  /\ UNCHANGED <<role, email, reviews, library, resp>>
  /\ IF Average(req[p].seen) = req[p].loaded
     THEN /\ Finish(p, 201, "Review added successfully")
          /\ UNCHANGED books
     ELSE IF req[p].book \notin DOMAIN books
     THEN /\ Finish(p, 500, "RuntimeError")
          /\ UNCHANGED books
     ELSE /\ books' = [books EXCEPT
                         ![req[p].book].average_rating = Average(req[p].seen)]
          /\ Finish(p, 201, "Review added successfully")

ConcNext ==
  \/ BooksPost(1, "Dune", "Herbert", "SciFi", None)
  \/ BooksDelete(1, 1)
  \/ \E p \in Procs, u \in UserIds, b \in {1, 2}, r \in {1, 5, 6} :
        PostBegin(p, u, b, r)
  \/ \E p \in Procs : PostInsert(p)
  \/ \E p \in Procs : PostRead(p)
  \/ \E p \in Procs : PostWrite(p)

ConcSpec == Init /\ [][ConcNext]_vars

\* ------------------------------------------- commits that can fail
\* db.session.commit() either succeeds or raises SQLAlchemyError (the
\* database is locked or cannot be reached).
CommitOutcomes == {"ok", "SQLAlchemyError"}

\* A recompute without the except clause: the error of the commit leaves
\* the method as it is.
update_average_rating_commit_unwrapped(bks, rvs, b, commit) ==
  LET found == OfBook(rvs, b)
      assigned == [bks EXCEPT ![b].average_rating = Average(found)]
  IN IF found = EmptyBag
     THEN [books |-> bks, raised |-> "ValueError"]
     ELSE IF commit = "ok"
     THEN [books |-> assigned, raised |-> ""]
     ELSE [books |-> bks, raised |-> commit]

\* A recompute whose except clause logs the error and returns.
update_average_rating_commit_swallowed(bks, rvs, b, commit) ==
  LET found == OfBook(rvs, b)
      assigned == [bks EXCEPT ![b].average_rating = Average(found)]
  IN IF found = EmptyBag
     THEN [books |-> bks, raised |-> "ValueError"]
     ELSE IF commit = "ok"
     THEN [books |-> assigned, raised |-> ""]
     ELSE [books |-> bks, raised |-> ""]

\* BookModel.update_average_rating on book b when its commit ends as
\* `commit`: the assignment stays in the session until the commit, and the
\* except clause rolls the session back and raises RuntimeError.
update_average_rating_commit(bks, rvs, b, commit) ==
  LET found == OfBook(rvs, b)
      assigned == [bks EXCEPT ![b].average_rating = Average(found)]
  IN IF found = EmptyBag
     THEN [books |-> bks, raised |-> "ValueError"]
     ELSE IF commit = "ok"
     THEN [books |-> assigned, raised |-> ""]
     ELSE [books |-> bks, raised |-> "RuntimeError"]

\* book.update_average_rating() on the stored book b, its commit ending as
\* `commit`.
UpdateAverageRatingCommit(b, commit) ==
  /\ b \in DOMAIN books
  /\ LET out == update_average_rating_commit(books, reviews, b, commit)
     IN /\ books' = out.books
        /\ resp' = Response("update_average_rating", 0, out.raised)
  /\ UNCHANGED <<role, email, reviews, library, procVars>>

\* BookReview.post, the commit of the review ending as `first` and the
\* commit of the recompute as `second`.  Neither call is inside a try:
\* an exception leaves the handler and the request ends with 500.
BookReviewPostCommit(u, b, r, t, first, second) ==
  /\ UNCHANGED <<role, email, library, procVars>>
  /\ IF BookReviewChecks(u, b, r).status # 0
     THEN /\ resp' = BookReviewChecks(u, b, r)
          /\ UNCHANGED <<books, reviews>>
     ELSE IF first # "ok"
     THEN /\ resp' = Response("add_review", 500, first)
          /\ UNCHANGED <<books, reviews>>
     ELSE /\ BagCardinality(reviews) < MaxReviews
          /\ LET rows == AddRow(reviews, ReviewModel(u, b, Some(r), t))
                 out == update_average_rating_commit(books, rows, b, second)
             IN /\ reviews' = rows
                /\ books' = out.books
                /\ resp' = IF out.raised = ""
                           THEN Response("add_review", 201,
                                         "Review added successfully")
                           ELSE Response("add_review", 500, out.raised)

FailureNext ==
  \/ \E t \in Titles : BooksPost(1, t, "Herbert", "SciFi", None)
  \/ \E u \in UserIds, b \in BookIdInputs, r \in {1, 5},
        first \in CommitOutcomes, second \in CommitOutcomes :
        BookReviewPostCommit(u, b, r, None, first, second)
  \/ \E b \in BookIdInputs, commit \in CommitOutcomes :
        UpdateAverageRatingCommit(b, commit)

FailureSpec == Init /\ [][FailureNext]_vars

\* ------------------------------------------------ the review model
\* ReviewModel.save_review on the stored review x: the new rating and text
\* are committed, then the book of the review, when it is stored, is
\* recomputed.
save_review(bks, rvs, x, rating, text) ==
  LET rows == (rvs (-) SetToBag({x}))
                (+) SetToBag({[x EXCEPT !.rating = rating,
                                        !.review_text = text]})
  IN IF x.book_id \in DOMAIN bks
     THEN LET out == update_average_rating(bks, rows, x.book_id)
          IN [books |-> out.books, reviews |-> rows, raised |-> out.raised]
     ELSE [books |-> bks, reviews |-> rows, raised |-> ""]

\* review.save_review(rating, review_text) for a stored review x.
SaveReview(x, rating, text) ==
  /\ BagIn(x, reviews)
  /\ LET out == save_review(books, reviews, x, rating, text)
     IN /\ reviews' = out.reviews
        /\ books' = out.books
        /\ resp' = Response("save_review", 0, out.raised)
  /\ UNCHANGED <<role, email, library, procVars>>

ReviewModelNext ==
  \/ \E t \in Titles : BooksPost(1, t, "Herbert", "SciFi", None)
  \/ \E b \in BookIdInputs, r \in {None, Some(3)},
        t \in {None, Some("Good book")} :
        ReviewInsert(2, b, r, t)
  \/ \E x \in DOMAIN reviews, r \in {0, 5, 6} :
        SaveReview(x, Some(r), Some("Excellent book"))

ReviewModelSpec == Init /\ [][ReviewModelNext]_vars

\* ------------------------------------------------- the user's library
\* One bucket of UserLibrary.get: the entries of user u with status s, each
\* as the response shows it.
Bucket(lib, bks, u, s) ==
  LET found == {e \in DOMAIN lib : e.user_id = u /\ e.status = s}
  IN [r \in {[book_id |-> e.book_id, title |-> bks[e.book_id].title] :
               e \in found}
        |-> lib[CHOOSE e \in found : e.book_id = r.book_id]]

\* A listing whose first query asks for the status of the second.
list_by_status_wrong_bucket(lib, bks, u) ==
  IF \E e \in DOMAIN lib : /\ e.user_id = u
                            /\ e.status \in {"completed", "reading", "wishlist"}
                            /\ e.book_id \notin DOMAIN bks
  THEN [status |-> 500, raised |-> "AttributeError"]
  ELSE [status |-> 200, raised |-> "",
        read_books |-> Bucket(lib, bks, u, "reading"),
        reading_books |-> Bucket(lib, bks, u, "reading"),
        want_to_read_books |-> Bucket(lib, bks, u, "wishlist")]

\* UserLibrary.get for user u: three queries, then entry.book.title for
\* every entry found; the book of an entry whose book_id is not stored is
\* None, and None.title raises AttributeError.
list_by_status(lib, bks, u) ==
  IF \E e \in DOMAIN lib : /\ e.user_id = u
                            /\ e.status \in {"completed", "reading", "wishlist"}
                            /\ e.book_id \notin DOMAIN bks
  THEN [status |-> 500, raised |-> "AttributeError"]
  ELSE [status |-> 200, raised |-> "",
        read_books |-> Bucket(lib, bks, u, "completed"),
        reading_books |-> Bucket(lib, bks, u, "reading"),
        want_to_read_books |-> Bucket(lib, bks, u, "wishlist")]

\* UserLibrary.get
UserLibraryGet(u) ==
  /\ resp' = Response("library_list", list_by_status(library, books, u).status,
                      list_by_status(library, books, u).raised)
  /\ UNCHANGED <<role, email, books, reviews, library, procVars>>

LibraryNext ==
  \/ \E t \in Titles : BooksPost(1, t, "Herbert", "SciFi", None)
  \/ \E b \in BookIdInputs : BooksDelete(1, b)
  \/ \E u \in UserIds, b \in LibraryBookIds,
        s \in {"reading", "wishlist", "finished"} : UserLibraryPost(u, b, s)
  \/ \E u \in UserIds, b \in LibraryBookIds,
        s \in {"completed", "finished"} : UserLibraryPatch(u, b, s)
  \/ \E u \in UserIds, b \in LibraryBookIds : UserLibraryDelete(u, b)
  \/ \E u \in UserIds : UserLibraryGet(u)

LibrarySpec == Init /\ [][LibraryNext]_vars

\* ------------------------------------------------- the library model
\* UserLibraryModel.update_status on the stored entry e.
update_status(lib, e, status) ==
  (lib (-) SetToBag({e})) (+) SetToBag({[e EXCEPT !.status = status]})

\* entry.update_status(status) for a stored entry e.
UpdateStatus(e, status) ==
  /\ BagIn(e, library)
  /\ library' = update_status(library, e, status)
  /\ resp' = Response("update_status", 0, "")
  /\ UNCHANGED <<role, email, books, reviews, procVars>>

LibraryModelNext ==
  \/ \E u \in UserIds, b \in BookIdInputs, s \in {"reading", "finished"} :
        UserLibraryPost(u, b, s)
  \/ \E e \in DOMAIN library, s \in {"completed", "invalid_status"} :
        UpdateStatus(e, s)

LibraryModelSpec == Init /\ [][LibraryModelNext]_vars

\* ----------------------------- UserLibrary.post, one statement at a time
\* Lines 52-65: the status check and the lookup of an existing entry.
LibraryPostBegin(p, u, b, status) ==
  /\ pc[p] = "idle"
  /\ UNCHANGED <<role, email, books, reviews, library, resp>>
  /\ IF status \notin ValidStatuses
     THEN /\ pc' = [pc EXCEPT ![p] = "done"]
          /\ req' = [req EXCEPT ![p].user = u, ![p].book = b,
                                ![p].entry_status = status,
                                ![p].status = 400,
                                ![p].message = "Invalid status"]
     ELSE IF OfUserBook(library, u, b) # EmptyBag
     THEN /\ pc' = [pc EXCEPT ![p] = "done"]
          /\ req' = [req EXCEPT ![p].user = u, ![p].book = b,
                                ![p].entry_status = status,
                                ![p].status = 400,
                                ![p].message = "Book already in your library"]
     ELSE /\ pc' = [pc EXCEPT ![p] = "library_insert"]
          /\ req' = [req EXCEPT ![p].user = u, ![p].book = b,
                                ![p].entry_status = status]

\* Lines 67-75: db.session.add(user_library_entry); db.session.commit()
LibraryPostInsert(p) ==
  /\ pc[p] = "library_insert"
  /\ BagCardinality(library) < MaxLibrary
  /\ library' = AddRow(library, UserLibraryModel(req[p].user, req[p].book,
                                                 req[p].entry_status))
  /\ Finish(p, 201, "Book added to library with status "
                      \o req[p].entry_status)
  /\ UNCHANGED <<role, email, books, reviews, resp>>

LibraryConcNext ==
  \/ \E p \in Procs, u \in UserIds, b \in BookIdInputs,
        s \in {"reading", "wishlist", "finished"} :
        LibraryPostBegin(p, u, b, s)
  \/ \E p \in Procs : LibraryPostInsert(p)
  \/ \E u \in UserIds, b \in BookIdInputs : UserLibraryDelete(u, b)

LibraryConcSpec == Init /\ [][LibraryConcNext]_vars

\* ------------------------------------------------- the catalogue's fields
\* The requests that create and update books, with the reviews and library
\* entries an update has to leave alone.
PatchInputs ==
  {[title |-> "Emma", author |-> "", genre |-> "Novel", description |-> ""],
   [title |-> "", author |-> "Austen", genre |-> "", description |-> "revised"],
   [title |-> "", author |-> "", genre |-> "", description |-> ""]}

\* The path parameter of an update: the first book, or an id past them all.
PatchIds == {1, MaxBooks + 1}

CatalogNext ==
  \/ \E u \in Identities, t \in Titles \cup {""} :
        BooksPost(u, t, "Herbert", "SciFi", Some("classic"))
  \/ \E b \in PatchIds, f \in PatchInputs :
        BooksPatch(1, b, f.title, f.author, f.genre, f.description)
  \/ BookReviewPost(2, 1, 4, None)
  \/ UserLibraryPost(2, 1, "reading")

CatalogSpec == Init /\ [][CatalogNext]_vars

\* ------------------------------------------------------------ the users
\* [a-zA-Z0-9_.+-], [a-zA-Z0-9-] and [a-zA-Z0-9-.] over the characters
\* the inputs use.
LocalChars == {"a", "b", "c", "g", "r", "x", "_", ".", "+", "-"}
DomainChars == {"a", "b", "c", "g", "r", "x", "-"}
SuffixChars == {"a", "b", "c", "g", "r", "x", "-", "."}

\* UserModel.is_valid_email:
\* re.match(r"(^[a-zA-Z0-9_.+-]+@[a-zA-Z0-9-]+\.[a-zA-Z0-9-.]+$)", email)
is_valid_email(e) ==
  \E i \in 2 .. Len(e), j \in 4 .. Len(e) :
    /\ i + 1 < j /\ j < Len(e)
    /\ e[i] = "@" /\ e[j] = "."
    /\ \A k \in 1 .. (i - 1) : e[k] \in LocalChars
    /\ \A k \in (i + 1) .. (j - 1) : e[k] \in DomainChars
    /\ \A k \in (j + 1) .. Len(e) : e[k] \in SuffixChars

\* UserModel.__init__: the exception the constructor raises, "" for none.
UserModel(name, e, password) ==
  IF name = "" \/ e = <<>> \/ password = "" THEN "ValueError"
  ELSE IF ~is_valid_email(e) THEN "ValueError"
  ELSE ""

\* UserModel.query.filter_by(email=e).first(): the ids of the users found.
ByEmail(e) == {u \in DOMAIN role : email[u] = e}

\* Register.post
RegisterPost(name, e, password) ==
  /\ UNCHANGED <<books, reviews, library, procVars>>
  /\ IF ByEmail(e) # {}
     THEN /\ resp' = Response("register", 400, "Email already registered")
          /\ UNCHANGED <<role, email>>
     ELSE IF UserModel(name, e, password) # ""
     THEN /\ resp' = Response("register", 500, UserModel(name, e, password))
          /\ UNCHANGED <<role, email>>
     ELSE /\ NewId(role) <= MaxUsers
          /\ role' = [u \in DOMAIN role \cup {NewId(role)} |->
                        IF u \in DOMAIN role THEN role[u] ELSE "user"]
          /\ email' = [u \in DOMAIN role \cup {NewId(role)} |->
                         IF u \in DOMAIN role THEN email[u] ELSE e]
          /\ resp' = Response("register", 201, "User registered successfully")

\* A promotion without the check that the target is not an admin yet.
PromoteToAdminPostTargetUnchecked(actor, e) ==
  /\ UNCHANGED <<email, books, reviews, library, procVars>>
  /\ IF actor \notin DOMAIN role
     THEN /\ resp' = Response("promote", 500, "AssertionError")
          /\ UNCHANGED role
     ELSE IF role[actor] # "admin"
     THEN /\ resp' = Response("promote", 403,
                              "You must be an admin to perform this action")
          /\ UNCHANGED role
     ELSE IF ByEmail(e) = {}
     THEN /\ resp' = Response("promote", 404, "User not found")
          /\ UNCHANGED role
     ELSE /\ \E t \in ByEmail(e) : role' = [role EXCEPT ![t] = "admin"]
          /\ resp' = Response("promote", 200, "User has been promoted to admin")

\* A promotion without the check of the actor's role.
PromoteToAdminPostByAnyone(actor, e) ==
  /\ UNCHANGED <<email, books, reviews, library, procVars>>
  /\ IF actor \notin DOMAIN role
     THEN /\ resp' = Response("promote", 500, "AssertionError")
          /\ UNCHANGED role
     ELSE IF ByEmail(e) = {}
     THEN /\ resp' = Response("promote", 404, "User not found")
          /\ UNCHANGED role
     ELSE IF \E t \in ByEmail(e) : role[t] = "admin"
     THEN /\ resp' = Response("promote", 400, "This user is already an admin")
          /\ UNCHANGED role
     ELSE /\ \E t \in ByEmail(e) : role' = [role EXCEPT ![t] = "admin"]
          /\ resp' = Response("promote", 200, "User has been promoted to admin")

\* PromoteToAdmin.post; the token of a user that is not stored fails the
\* assert, and .first() is any one of the users found.
PromoteToAdminPost(actor, e) ==
  /\ UNCHANGED <<email, books, reviews, library, procVars>>
  /\ IF actor \notin DOMAIN role
     THEN /\ resp' = Response("promote", 500, "AssertionError")
          /\ UNCHANGED role
     ELSE IF role[actor] # "admin"
     THEN /\ resp' = Response("promote", 403,
                              "You must be an admin to perform this action")
          /\ UNCHANGED role
     ELSE IF ByEmail(e) = {}
     THEN /\ resp' = Response("promote", 404, "User not found")
          /\ UNCHANGED role
     ELSE IF \E t \in ByEmail(e) : role[t] = "admin"
     THEN /\ resp' = Response("promote", 400, "This user is already an admin")
          /\ UNCHANGED role
     ELSE /\ \E t \in ByEmail(e) : role' = [role EXCEPT ![t] = "admin"]
          /\ resp' = Response("promote", 200, "User has been promoted to admin")

\* A database whose two users have any of the two roles.
UsersInit ==
  /\ role \in [UserIds -> {"user", "admin"}]
  /\ email = [u \in UserIds |-> IF u = 1 THEN AdminEmail ELSE AliceEmail]
  /\ books = << >>
  /\ reviews = EmptyBag
  /\ library = EmptyBag
  /\ resp = Response("none", 0, "")
  /\ pc = [p \in Procs |-> "idle"]
  /\ req = [p \in Procs |-> [user |-> 0, book |-> 0, rating |-> 0,
                             seen |-> EmptyBag, loaded |-> Zero,
                             entry_status |-> "",
                             status |-> 0, message |-> ""]]

\* The requests that create and change users, and requests of every other
\* resource made by the users there are.
UsersNext ==
  \/ \E n \in NameInputs, e \in EmailInputs : RegisterPost(n, e, "pw")
  \/ \E actor \in ActorIds, e \in EmailInputs : PromoteToAdminPost(actor, e)
  \/ \E u \in ActorIds : BooksPost(u, "Dune", "Herbert", "SciFi", None)
  \/ \E u \in ActorIds : BooksPatch(u, 1, "", "", "", "revised")
  \/ \E u \in ActorIds : BooksDelete(u, 1)
  \/ BookReviewPost(2, 1, 5, None)
  \/ UserLibraryPost(2, 1, "reading")

UsersSpec == UsersInit /\ [][UsersNext]_vars

\* =================================================================== claims
\* The mean of a book's rated reviews, stated without the code's arithmetic:
\* avg is the mean of the non-null ratings of the rows of book b in rvs, and
\* 0.0 when there is none.
RatedRows(rvs, b) == {x \in DOMAIN rvs : x.book_id = b /\ Len(x.rating) = 1}

RECURSIVE RatingSum(_, _)
RatingSum(rvs, S) == IF S = {} THEN 0
                     ELSE LET x == CHOOSE y \in S : TRUE
                          IN x.rating[1] * rvs[x] + RatingSum(rvs, S \ {x})

RECURSIVE RatingCount(_, _)
RatingCount(rvs, S) == IF S = {} THEN 0
                       ELSE LET x == CHOOSE y \in S : TRUE
                            IN rvs[x] + RatingCount(rvs, S \ {x})

IsMeanOf(avg, rvs, b) ==
  LET S == RatedRows(rvs, b)
  IN IF RatingCount(rvs, S) = 0 THEN avg = <<0, 1>>
     ELSE avg[2] > 0 /\ avg[1] * RatingCount(rvs, S) = RatingSum(rvs, S) * avg[2]

\* C1: after any sequence of completed API requests, one at a time, every
\* book's average_rating is the mean of the non-null ratings of its stored
\* reviews, and 0.0 when it has no rated review.
C1_AverageIsMean ==
  \A b \in DOMAIN books : IsMeanOf(books[b].average_rating, reviews, b)

C1_Witness ==
  /\ resp = Response("add_review", 201, "Review added successfully")
  /\ \E b \in DOMAIN books :
       /\ BagCardinality(OfBook(reviews, b)) = 2
       /\ books[b].average_rating = <<3, 1>>
       /\ \E c \in DOMAIN books : c # b /\ books[c].average_rating = <<5, 1>>

\* C2: when two add-review requests by different users for the same book
\* have both returned 201, in whatever order their statements ran, the book's
\* average_rating is the mean of the two ratings.
C2_BothRatingsCounted ==
  \A p, q \in Procs :
    ( /\ p # q
      /\ pc[p] = "done" /\ req[p].status = 201
      /\ pc[q] = "done" /\ req[q].status = 201
      /\ req[p].book = req[q].book /\ req[p].user # req[q].user
      /\ req[p].book \in DOMAIN books
      /\ BagCardinality(OfBook(reviews, req[p].book)) = 2 )
    => LET avg == books[req[p].book].average_rating
       IN avg[1] * 2 = (req[p].rating + req[q].rating) * avg[2]

\* C3: in every state, under any interleaving of add-review requests, there
\* is at most one review row per (user_id, book_id).
C3_OneReviewPerUserAndBook ==
  \A u \in UserIds, b \in BookIdInputs :
    BagCardinality(OfUserBook(reviews, u, b)) <= 1

\* C4: when update_average_rating returns normally, the stored average of
\* that book is the mean of the non-null ratings of that book's reviews,
\* whatever their values, and 0.0 when none of its reviews is rated.
C4_RecomputeStoresMean ==
  [][\A b \in BookIdInputs :
       (UpdateAverageRating(b) /\ resp'.message = "")
       => IsMeanOf(books'[b].average_rating, reviews', b)]_vars

C4_Witness ==
  /\ resp = Response("update_average_rating", 0, "")
  /\ \E b \in DOMAIN books :
       /\ books[b].average_rating = <<6, 1>>
       /\ \E x \in DOMAIN reviews : x.book_id = b /\ x.rating = None
       /\ \E x \in DOMAIN reviews : x.book_id = b /\ x.rating = Some(6)
       /\ \E x \in DOMAIN reviews : x.book_id # b

\* C5: update_average_rating on a book with no review returns normally and
\* stores 0.0.
C5_NoReviewsStoresZero ==
  [][\A b \in BookIdInputs :
       (UpdateAverageRating(b) /\ OfBook(reviews, b) = EmptyBag)
       => (resp'.message = "" /\ books'[b].average_rating = Zero)]_vars

\* C6: right after a call of update_average_rating on a book, a second call
\* on it ends as the first did and leaves every stored field as it is.
C6_RecomputeIdempotent ==
  [][\A b \in BookIdInputs :
       UpdateAverageRating(b)
       => LET again == update_average_rating(books', reviews', b)
          IN again.books = books' /\ again.raised = resp'.message]_vars

C6_Witness ==
  /\ resp = Response("update_average_rating", 0, "")
  /\ \E b \in DOMAIN books :
       /\ BagCardinality(OfBook(reviews, b)) >= 2
       /\ books[b].average_rating = <<9, 2>>

\* C7: an add-review by a user who already has a review for the book
\* returns 400, and no review row and no book changes.
C7_SecondReviewRejected ==
  [][\/ resp'.status = 400 /\ reviews' = reviews /\ books' = books
     \/ \A x \in DOMAIN reviews, r \in RatingInputs :
          ~BookReviewPost(x.user_id, x.book_id, r, None)]_vars

C7_Witness ==
  /\ resp = Response("add_review", 400, "You have already reviewed this book")
  /\ \E x \in DOMAIN reviews : books[x.book_id].average_rating = <<x.rating[1], 1>>

\* C8: an add-review for a stored book by a stored user who has no review
\* for it stores the review and returns 201 when 1 <= rating <= 5, and
\* otherwise returns 400 and changes no review and no book.
C8_RatingAcceptedIffInRange ==
  [][\A u \in UserIds, b \in DOMAIN books :
       OfUserBook(reviews, u, b) = EmptyBag
       => \A r \in RatingInputs :
            BookReviewPost(u, b, r, None)
            => IF 1 <= r /\ r <= 5
               THEN /\ resp'.status = 201
                    /\ reviews' = reviews (+) SetToBag({[user_id |-> u,
                                                         book_id |-> b,
                                                         rating |-> <<r>>,
                                                         review_text |-> <<>>]})
               ELSE /\ resp'.status = 400
                    /\ reviews' = reviews /\ books' = books]_vars

C8_Witness ==
  /\ resp = Response("add_review", 201, "Review added successfully")
  /\ \E x, y \in DOMAIN reviews : x.rating = <<1>> /\ y.rating = <<5>>

\* C9: after a delete-book by an admin returns 200 for book b, no review and
\* no library entry has book_id b, a get of b returns 404, and every other
\* book, with its reviews and library entries, is as before.
C9_DeleteCascades ==
  [][\A u \in UserIds, b \in BookIdInputs :
       (BooksDelete(u, b) /\ resp'.status = 200)
       => /\ OfBook(reviews', b) = EmptyBag
          /\ OfBook(library', b) = EmptyBag
          /\ BooksGetStatus(books', b) = 404
          /\ \A c \in BookIdInputs \ {b} :
               /\ OfBook(reviews', c) = OfBook(reviews, c)
               /\ OfBook(library', c) = OfBook(library, c)
               /\ c \in DOMAIN books => (c \in DOMAIN books' /\ books'[c] = books[c])
               /\ c \in DOMAIN books' => c \in DOMAIN books]_vars

C9_Witness ==
  /\ resp = Response("delete_book", 200, "Book deleted successfully")
  /\ \E c \in DOMAIN books :
       /\ OfBook(reviews, c) # EmptyBag
       /\ OfBook(library, c) # EmptyBag
       /\ OfBook(library, 3 - c) = EmptyBag

\* C10: an add-review that returns 201 has committed its review before its
\* recompute read the book's reviews, and has finished the recompute before
\* it answers: the reviews its recompute read include its own.
OwnReview(p) == ReviewModel(req[p].user, req[p].book, Some(req[p].rating), None)

C10_RecomputeReadsOwnReview ==
  \A p \in Procs :
    (pc[p] = "write" \/ req[p].status = 201)
    => /\ BagIn(OwnReview(p), req[p].seen)
       /\ req[p].status = 201 => pc[p] = "done"

C10_Witness ==
  \E p \in Procs : /\ req[p].status = 201
                   /\ BagCardinality(req[p].seen) = 2
                   /\ books[req[p].book].average_rating = <<3, 1>>

\* C11: when the commit inside update_average_rating fails, the method
\* raises RuntimeError and the book keeps the average it had; in add-review
\* the review committed before the recompute stays stored, and the request
\* does not end as a success.
C11_CommitFailureIsRaised ==
  [][/\ \A b \in DOMAIN books :
          (OfBook(reviews, b) # EmptyBag
           /\ UpdateAverageRatingCommit(b, "SQLAlchemyError"))
          => /\ resp'.message = "RuntimeError"
             /\ books' = books /\ reviews' = reviews
     /\ \A u \in UserIds, b \in DOMAIN books, r \in {1, 5} :
          (BookReviewChecks(u, b, r).status = 0
           /\ BookReviewPostCommit(u, b, r, None, "ok", "SQLAlchemyError"))
          => /\ resp' = Response("add_review", 500, "RuntimeError")
             /\ books' = books
             /\ reviews' = reviews (+) SetToBag({[user_id |-> u, book_id |-> b,
                                                  rating |-> <<r>>,
                                                  review_text |-> <<>>]})]_vars

C11_Witness ==
  /\ resp = Response("add_review", 500, "RuntimeError")
  /\ \E b \in DOMAIN books :
       /\ BagCardinality(OfBook(reviews, b)) = 2
       /\ books[b].average_rating = <<1, 1>>
       /\ ~IsMeanOf(books[b].average_rating, reviews, b)

C13_SaveReviewChecksRange ==
  [][\A x \in DOMAIN reviews, r \in {0, 5, 6} :
       SaveReview(x, Some(r), Some("Excellent book"))
       => IF r < 1 \/ r > 5
          THEN /\ resp'.message = "ValueError"
               /\ reviews' = reviews /\ books' = books
          ELSE /\ reviews' = (reviews (-) SetToBag({x}))
                               (+) SetToBag({[user_id |-> x.user_id,
                                              book_id |-> x.book_id,
                                              rating |-> <<r>>,
                                              review_text |-> <<"Excellent book">>]})
               /\ IsMeanOf(books'[x.book_id].average_rating, reviews',
                           x.book_id)]_vars

\* C14: every stored review has a rating or a review text.
C14_ReviewHasRatingOrText ==
  \A x \in DOMAIN reviews : Len(x.rating) = 1 \/ Len(x.review_text) = 1

\* The entries of a table that are not the ones of user u for book b.
OfOthers(table, u, b) ==
  [x \in {y \in DOMAIN table : y.user_id # u \/ y.book_id # b} |-> table[x]]

\* C15: a library add returns 400 and changes nothing when the status is
\* not reading, completed or wishlist, or when the user already has an
\* entry for the book; otherwise it returns 201 and adds exactly the entry
\* (user, book, status).  With one request at a time there is never more
\* than one entry per user and book.
C15_LibraryAdd ==
  /\ [](\A u \in UserIds, b \in BookIdInputs :
          BagCardinality(OfUserBook(library, u, b)) <= 1)
  /\ [][\A u \in UserIds, b \in LibraryBookIds,
           s \in {"reading", "wishlist", "finished"} :
          UserLibraryPost(u, b, s)
          => IF s \notin {"reading", "completed", "wishlist"}
                \/ OfUserBook(library, u, b) # EmptyBag
             THEN resp'.status = 400 /\ library' = library
             ELSE /\ resp'.status = 201
                  /\ library' = library (+) SetToBag({[user_id |-> u,
                                                       book_id |-> b,
                                                       status |-> s]})]_vars

C15_Witness ==
  /\ resp = Response("library_add", 201,
                     "Book added to library with status wishlist")
  /\ \E e \in DOMAIN library : e.status = "wishlist" /\ e.user_id = 1
  /\ \E e \in DOMAIN library : e.user_id = 2

\* C16: under any interleaving of library-add requests there is at most
\* one library entry per user and book.
C16_OneEntryPerUserAndBook ==
  \A u \in UserIds, b \in BookIdInputs :
    BagCardinality(OfUserBook(library, u, b)) <= 1

\* C17: the status of every stored library entry is reading, completed or
\* wishlist; update_status with another value stores nothing.
C17_StatusIsValid ==
  \A e \in DOMAIN library : e.status \in {"reading", "completed", "wishlist"}

\* C18: listing the library never ends in an error: it returns 200.
C18_ListingNeverFails ==
  resp.op = "library_list" => resp.status = 200

C20_LibraryUpdateFrame ==
  [][\A u \in UserIds, b \in LibraryBookIds, s \in {"completed", "finished"} :
       UserLibraryPatch(u, b, s)
       => /\ books' = books /\ reviews' = reviews
          /\ IF s \notin {"reading", "completed", "wishlist"}
             THEN resp'.status = 400 /\ library' = library
             ELSE IF OfUserBook(library, u, b) = EmptyBag
             THEN resp'.status = 404 /\ library' = library
             ELSE /\ resp'.status = 200
                  /\ OfOthers(library', u, b) = OfOthers(library, u, b)
                  /\ OfUserBook(library', u, b)
                     = SetToBag({[user_id |-> u, book_id |-> b,
                                  status |-> s]})]_vars

C20_Witness ==
  /\ resp = Response("library_update", 200, "Book status updated to completed")
  /\ \E e, f \in DOMAIN library :
       /\ e.user_id = 1 /\ e.status = "completed"
       /\ f.user_id = 2 /\ f.book_id = e.book_id /\ f.status = "reading"

\* C21: a library remove returns 404 and changes nothing when the user has
\* no entry for the book; otherwise it returns 200 and deletes the user's
\* entry for the book and nothing else, after which the user has no entry
\* for the book, and an add by a user who has no entry for the book returns
\* 201 and leaves exactly one: add, remove, add never meets a conflict and
\* never leaves two entries.
C21_LibraryRemove ==
  /\ [][\A u \in UserIds, b \in LibraryBookIds :
          UserLibraryDelete(u, b)
          => /\ books' = books /\ reviews' = reviews
             /\ IF OfUserBook(library, u, b) = EmptyBag
                THEN resp'.status = 404 /\ library' = library
                ELSE /\ resp'.status = 200
                     /\ OfOthers(library', u, b) = OfOthers(library, u, b)
                     /\ OfUserBook(library', u, b) = EmptyBag]_vars
  /\ [][\A u \in UserIds, b \in LibraryBookIds :
          ( /\ OfUserBook(library, u, b) = EmptyBag
            /\ UserLibraryPost(u, b, "reading") )
          => /\ resp'.status = 201
             /\ BagCardinality(OfUserBook(library', u, b)) = 1]_vars

C21_Witness ==
  /\ resp = Response("library_remove", 200,
                     "Book successfully removed from your library")
  /\ \E e \in DOMAIN library : e.user_id = 2
  /\ \A e \in DOMAIN library : e.user_id # 1
\* A step that changes the title, author, genre or description of a stored
\* book, or deletes a book.
CatalogFieldsChange ==
  \E b \in DOMAIN books :
    \/ b \notin DOMAIN books'
    \/ books'[b].title # books[b].title
    \/ books'[b].author # books[b].author
    \/ books'[b].genre # books[b].genre
    \/ books'[b].description # books[b].description

\* A step that is an update-book or delete-book request of a caller whose
\* role is admin when the request is made.
ByAnAdmin ==
  \E u \in DOMAIN role :
    /\ role[u] = "admin"
    /\ BooksPatch(u, 1, "", "", "", "revised") \/ BooksDelete(u, 1)

\* A caller whose role is not admin returns 403 from update-book and from
\* delete-book and leaves every book, review and library entry unchanged,
\* whether or not the book exists.
NonAdminIsRefused ==
  \A u \in ActorIds :
    (u \notin DOMAIN role \/ role[u] # "admin")
    => /\ BooksPatch(u, 1, "", "", "", "revised")
          => /\ resp'.status = 403
             /\ books' = books /\ reviews' = reviews /\ library' = library
       /\ BooksDelete(u, 1)
          => /\ resp'.status = 403
             /\ books' = books /\ reviews' = reviews /\ library' = library

\* A step that is a request of a caller whose role is admin when the
\* request is made.
RequestOfAnAdmin ==
  \/ ByAnAdmin
  \/ role[2] = "admin" /\ BookReviewPost(2, 1, 5, None)

\* C22 as stated: update-book and delete-book by a caller whose role is not
\* admin return 403 and change nothing, and every step that modifies or
\* deletes a stored book is a request of a caller whose role is admin.
C22_OnlyAdminsModifyBooks ==
  [][ /\ NonAdminIsRefused
      /\ (\E b \in DOMAIN books : b \notin DOMAIN books' \/ books'[b] # books[b])
         => RequestOfAnAdmin ]_vars

\* C22, amended: update-book and delete-book by a caller whose role is not
\* admin return 403 and change nothing, whether or not the book exists, and
\* every step that changes the title, author, genre or description of a
\* stored book or deletes a book is an update-book or delete-book request of
\* a caller whose role is admin at that moment; the average_rating is also
\* changed by the add-review of any user.
C22_OnlyAdminsChangeCatalogFields ==
  [][ /\ NonAdminIsRefused
      /\ CatalogFieldsChange => ByAnAdmin ]_vars

C22_Witness ==
  /\ resp = Response("update_book", 403, "Unauthorized access")
  /\ 1 \in DOMAIN books
  /\ role[1] = "user" /\ role[2] = "admin"
  /\ books[1].description = Some("revised")
\* The stored users whose email is e.
WithEmail(e) == {u \in DOMAIN role : email[u] = e}

\* C23: a promotion by a stored actor returns 403 when the actor's role is
\* not admin, else 404 when no user has the target email, else 400 when the
\* target is an admin already, and changes no role in these cases; otherwise
\* it returns 200 and sets the role of the target, and of nobody else, to
\* admin.  No promotion adds, removes or renames a user.
C23_Promote ==
  [][\A actor \in DOMAIN role, e \in EmailInputs :
       PromoteToAdminPost(actor, e)
       => /\ email' = email
          /\ DOMAIN role' = DOMAIN role
          /\ IF role[actor] # "admin"
             THEN resp'.status = 403 /\ role' = role
             ELSE IF WithEmail(e) = {}
             THEN resp'.status = 404 /\ role' = role
             ELSE IF \E t \in WithEmail(e) : role[t] = "admin"
             THEN resp'.status = 400 /\ role' = role
             ELSE /\ resp'.status = 200
                  /\ \A u \in DOMAIN role :
                       role'[u] = IF u \in WithEmail(e) THEN "admin"
                                  ELSE role[u]]_vars

C23_Witness ==
  /\ resp = Response("promote", 200, "User has been promoted to admin")
  /\ DOMAIN role = {1, 2, 3}
  /\ role[1] = "admin" /\ role[2] = "user" /\ role[3] = "admin"

\* No two stored users share an email.
EmailsAreUnique ==
  \A u, v \in DOMAIN role : email[u] = email[v] => u = v

\* The step adds exactly one user, with email e and role user.
AddsOneUser(e) ==
  /\ \E n \in DOMAIN role' \ DOMAIN role :
       /\ DOMAIN role' = DOMAIN role \cup {n}
       /\ role'[n] = "user" /\ email'[n] = e
  /\ \A u \in DOMAIN role : role'[u] = role[u] /\ email'[u] = email[u]

\* C24 as stated: a registration with the email of a stored user returns
\* 400 and adds or changes no user; every other registration returns 201
\* and adds exactly one user with that email and role user.  No two users
\* share an email.
C24_RegisterAlwaysAdds ==
  /\ [](EmailsAreUnique)
  /\ [][\A n \in NameInputs, e \in EmailInputs :
          RegisterPost(n, e, "pw")
          => IF WithEmail(e) # {}
             THEN resp'.status = 400 /\ role' = role /\ email' = email
             ELSE resp'.status = 201 /\ AddsOneUser(e)]_vars

\* C27: no step removes a user; a role changes only from user to admin and
\* only in a promotion whose actor is an admin in the state of the request;
\* a user that a step adds has role user; and a step from a state without
\* an admin leads to a state without an admin.
C27_RolesOnlyRiseByAdmins ==
  [][ /\ \A u \in DOMAIN role :
           /\ u \in DOMAIN role'
           /\ role'[u] # role[u]
              => /\ role[u] = "user" /\ role'[u] = "admin"
                 /\ \E actor \in DOMAIN role :
                      /\ role[actor] = "admin"
                      /\ PromoteToAdminPost(actor, email[u])
      /\ \A u \in DOMAIN role' \ DOMAIN role : role'[u] = "user"
      /\ (\A u \in DOMAIN role : role[u] # "admin")
         => (\A u \in DOMAIN role' : role'[u] # "admin") ]_vars

C27_Witness ==
  /\ resp = Response("promote", 403,
                     "You must be an admin to perform this action")
  /\ DOMAIN role = {1, 2, 3}
  /\ \A u \in DOMAIN role : role[u] = "user"
\* A stored book has the title and the author.
IsStored(t, a) ==
  \E b \in DOMAIN books : books[b].title = t /\ books[b].author = a

\* The step adds exactly one book, with the title and average_rating 0.0
\* and no reviews, and changes no other book.
AddsOneBook(t) ==
  /\ \E n \in DOMAIN books' \ DOMAIN books :
       /\ DOMAIN books' = DOMAIN books \cup {n}
       /\ books'[n].title = t /\ books'[n].author = "Herbert"
       /\ books'[n].average_rating = <<0, 1>>
       /\ \A x \in DOMAIN reviews' : x.book_id # n
  /\ \A b \in DOMAIN books : books'[b] = books[b]

\* C25 as stated: a create-book by a stored user, admin or not, returns 201
\* and adds exactly one book with average_rating 0.0 and no reviews, unless
\* a stored book has the same title and author: then it returns 400 and the
\* catalogue is unchanged.
C25_CreateAlwaysAdds ==
  [][\A u \in UserIds, t \in Titles \cup {""} :
       BooksPost(u, t, "Herbert", "SciFi", Some("classic"))
       => IF IsStored(t, "Herbert")
          THEN resp'.status = 400 /\ books' = books
          ELSE resp'.status = 201 /\ AddsOneBook(t)]_vars

\* C25, amended: a create-book by a stored user, admin or not, with a title,
\* an author and a genre that are not empty returns 201 and adds exactly one
\* book with average_rating 0.0 and no reviews, unless a stored book has the
\* same title and author: then it returns 400 and the catalogue is
\* unchanged.  With an empty title it does not return 201 and the catalogue
\* is unchanged.
C25_CreateBook ==
  [][\A u \in UserIds, t \in Titles \cup {""} :
       BooksPost(u, t, "Herbert", "SciFi", Some("classic"))
       => IF IsStored(t, "Herbert")
          THEN resp'.status = 400 /\ books' = books
          ELSE IF t # ""
          THEN resp'.status = 201 /\ AddsOneBook(t)
          ELSE resp'.status # 201 /\ books' = books]_vars

C25_Witness ==
  /\ resp = Response("create_book", 201, "Book added successfully")
  /\ DOMAIN books = {1, 2}
  /\ books[1].average_rating = <<4, 1>>
  /\ books[2].average_rating = <<0, 1>>
  /\ \A x \in DOMAIN reviews : x.book_id = 1

\* C26: an update-book by an admin for a stored book returns 200 and
\* overwrites exactly the fields among title, author, genre and description
\* that the request gives a value that is not empty; the other fields, the
\* ids, the average_rating, the reviews, the library entries and all other
\* books are unchanged.  For an id that is not stored it returns 404 and
\* changes nothing.
C26_UpdateFrame ==
  [][\A b \in PatchIds, f \in PatchInputs :
       BooksPatch(1, b, f.title, f.author, f.genre, f.description)
       => /\ reviews' = reviews /\ library' = library
          /\ IF b \notin DOMAIN books
             THEN resp'.status = 404 /\ books' = books
             ELSE /\ resp'.status = 200
                  /\ DOMAIN books' = DOMAIN books
                  /\ \A c \in DOMAIN books \ {b} : books'[c] = books[c]
                  /\ books'[b].title
                       = IF f.title = "" THEN books[b].title ELSE f.title
                  /\ books'[b].author
                       = IF f.author = "" THEN books[b].author ELSE f.author
                  /\ books'[b].genre
                       = IF f.genre = "" THEN books[b].genre ELSE f.genre
                  /\ books'[b].description
                       = IF f.description = "" THEN books[b].description
                         ELSE <<f.description>>
                  /\ books'[b].average_rating = books[b].average_rating]_vars

C26_Witness ==
  /\ resp = Response("update_book", 200, "Book updated successfully")
  /\ DOMAIN books = {1, 2}
  /\ books[1] = [title |-> "Dune", author |-> "Austen", genre |-> "SciFi",
                  description |-> <<"revised">>, average_rating |-> <<4, 1>>]
  /\ books[2].author = "Herbert"
  /\ \E e \in DOMAIN library : e.book_id = 1

\* C28: no two stored books have the same title and the same author.
C28_TitleAndAuthorAreUnique ==
  \A b, c \in DOMAIN books :
    (books[b].title = books[c].title /\ books[b].author = books[c].author)
    => b = c
\* C29: the book_id of every stored library entry is the id of a stored
\* book.
C29_EntriesReferToBooks ==
  \A e \in DOMAIN library : e.book_id \in DOMAIN books

\* C30: when no add-review request is under way, the book_id of every
\* stored review is the id of a stored book, and no add-review request has
\* ended with an error of the recompute.
C30_ReviewsReferToBooks ==
  (\A p \in Procs : pc[p] \in {"idle", "done"})
  => /\ \A x \in DOMAIN reviews : x.book_id \in DOMAIN books
     /\ \A p \in Procs : req[p].status # 500
====
